---- MODULE Spec2Model ----
(***************************************************************************)
(* Model of pymunk-swing-ai: the Swing (src/objects/swing.py), the         *)
(* Stickman (src/objects/stickman.py) and the application that owns them   *)
(* (src/pg/app.py).                                                        *)
(*                                                                         *)
(* The pymunk Space is modelled as the three sets of registered objects    *)
(* (bodies, shapes, constraints) plus the stores of the Body, Shape and    *)
(* PinJoint objects the program has allocated; an object is named by its   *)
(* index in its store.  Vectors are pairs of integers; the angles used are *)
(* multiples of 90 degrees, for which the rotation is exact.               *)
(***************************************************************************)
EXTENDS Integers, Sequences, FiniteSets, TLC

VARIABLES
    swing_config,     \* App._swing_config
    stickman_config,  \* App._stickman_config
    space,            \* App._space and the pymunk objects allocated so far
    swings,           \* App._swings
    members,          \* App._members
    calls,            \* force / step calls the last operation made on the space
    err,              \* "ok", or the exception the last operation raised
    op,               \* the last operation: its name, its target and the
                      \*   registered sets before it ran
    ticks             \* number of App.update calls so far

vars == <<swing_config, stickman_config, space, swings, members, calls, err, op, ticks>>

---------------------------------------------------------------------------
(* Bounds of the model *)

MaxLinks == 3       \* largest num_links of a swing configuration
MaxSwings == 2      \* App.add_swing calls in one run
MaxMembers == 1     \* App.add_stickman calls in one run
MaxComposites == 2  \* swings and stickmen added in one run
MaxTicks == 1       \* App.update calls in one run
MaxSpeed == 5       \* largest speed the solver hands back

---------------------------------------------------------------------------
(* Vec2d *)

Vec_add(a, b) == <<a[1] + b[1], a[2] + b[2]>>
Vec_neg(a) == <<-a[1], -a[2]>>
Vec_scale(a, k) == <<a[1] * k, a[2] * k>>
Vec_dot(a, b) == a[1] * b[1] + a[2] * b[2]
Vec_cross(a, b) == a[1] * b[2] - a[2] * b[1]

\* cos and sin of a multiple of 90 degrees
Cos90(angle) == CASE angle % 360 = 0 -> 1 [] angle % 360 = 180 -> -1 [] OTHER -> 0
Sin90(angle) == CASE angle % 360 = 90 -> 1 [] angle % 360 = 270 -> -1 [] OTHER -> 0

\* Vec2d.rotated
Vec_rotated(v, angle) ==
    <<v[1] * Cos90(angle) - v[2] * Sin90(angle),
      v[1] * Sin90(angle) + v[2] * Cos90(angle)>>

\* Vec2d.length, for the vectors whose length is an integer
Vec_length(v) == CHOOSE s \in 0..(MaxSpeed + 1) : s * s = Vec_dot(v, v)

\* Vec2d.normalized_and_length: the direction is the rational num / den
Vec_normalized_and_length(v) ==
    LET length == Vec_length(v)
    IN  IF length > 0
        THEN [direction |-> [num |-> v, den |-> length], length |-> length]
        ELSE [direction |-> [num |-> <<0, 0>>, den |-> 1], length |-> 0]

---------------------------------------------------------------------------
(* src/constants.py *)

AIR_DENSITY == [num |-> 45, den |-> 100]
DRAG_COEFFICIENT == [num |-> 25, den |-> 1000]
NORM_VECTOR == <<0, -1>>

dir_vec(angle) == Vec_rotated(NORM_VECTOR, angle)

---------------------------------------------------------------------------
(* pymunk objects *)

\* pymunk.Body(mass, moment) with body.position = start_pos
Body_new(mass, start_pos) ==
    [mass |-> mass, position |-> start_pos, velocity |-> <<0, 0>>, body_type |-> "DYNAMIC"]

\* area of a disc of radius r, in whole units (pi taken as 355/113)
Circle_area(r) == (355 * r * r) \div 113

\* area of a segment of the given length and thickness radius r
Segment_area(length, r) == 2 * r * length + Circle_area(r)

\* pymunk.Circle(body, radius, offset) with its ShapeFilter group
Circle_new(body, radius, offset, group) ==
    [kind |-> "Circle", body |-> body, radius |-> radius, a |-> offset, b |-> offset,
     area |-> Circle_area(radius), filter_group |-> group]

\* pymunk.Segment(body, a, b, radius) with its ShapeFilter group
Segment_new(body, a, b, length, radius, group) ==
    [kind |-> "Segment", body |-> body, radius |-> radius, a |-> a, b |-> b,
     area |-> Segment_area(length, radius), filter_group |-> group]

EmptySpace ==
    [bodies |-> {}, shapes |-> {}, constraints |-> {},
     body |-> <<>>, shape |-> <<>>, joint |-> <<>>]

\* space.add(body, shape)
Space_add(w, bs, ss, cs) ==
    [w EXCEPT !.bodies = @ \cup bs, !.shapes = @ \cup ss, !.constraints = @ \cup cs]

Space_contains(w, o) ==
    CASE o[1] = "body" -> o[2] \in w.bodies
      [] o[1] = "shape" -> o[2] \in w.shapes
      [] OTHER -> o[2] \in w.constraints

Space_discard(w, o) ==
    CASE o[1] = "body" -> [w EXCEPT !.bodies = @ \ {o[2]}]
      [] o[1] = "shape" -> [w EXCEPT !.shapes = @ \ {o[2]}]
      [] OTHER -> [w EXCEPT !.constraints = @ \ {o[2]}]

\* space.remove(*objs): the objects are removed one after the other, and
\* removing one that is not registered raises
RECURSIVE Space_remove(_, _)
Space_remove(w, objs) ==
    IF objs = <<>> THEN [w |-> w, err |-> "ok"]
    ELSE IF ~Space_contains(w, Head(objs)) THEN [w |-> w, err |-> "AssertionError"]
    ELSE Space_remove(Space_discard(w, Head(objs)), Tail(objs))

Registered(w) == [bodies |-> w.bodies, shapes |-> w.shapes, constraints |-> w.constraints]


\* Mutant: the call also takes the body out of the space
Body_apply_force_and_discard(w, call) == Space_discard(w, <<"body", call.body>>)

\* body.apply_force_at_world_point(force, point): the call adds to body.force and
\* body.torque, which the solver reads in space.step.  A Body of the model has
\* neither field (the force is the one kept in calls), so the call leaves the
\* space and its objects as they are.
Body_apply_force_at_world_point(w, call) == w

\* the apply_force calls of an update, made one after the other on the space
RECURSIVE Space_apply_calls(_, _, _)
Space_apply_calls(w, cs, i) ==
    IF i > Len(cs) THEN w
    ELSE Space_apply_calls(IF cs[i].op = "apply_force"
                           THEN Body_apply_force_at_world_point(w, cs[i]) ELSE w,
                           cs, i + 1)

---------------------------------------------------------------------------
(* Drag: the body of the three drag_force properties.  The force is the    *)
(* rational vector num / den.                                              *)

\* Mutant: the magnitude is k * speed instead of k * speed ** 2
Drag_linear(area, velocity) ==
    LET k == [num |-> AIR_DENSITY.num * DRAG_COEFFICIENT.num * area,
              den |-> AIR_DENSITY.den * DRAG_COEFFICIENT.den * 2]
        nl == Vec_normalized_and_length(velocity)
        minus_direction == Vec_neg(nl.direction.num)
    IN  [num |-> <<(minus_direction[1] * k.num * nl.length) \div nl.direction.den,
                   (minus_direction[2] * k.num * nl.length) \div nl.direction.den>>,
         den |-> k.den]

\* k = (AIR_DENSITY * DRAG_COEFFICIENT * area) / 2
\* direction, speed = velocity.normalized_and_length()
\* drag_force = -direction * (k * speed ** 2)
Drag(area, velocity) ==
    LET k == [num |-> AIR_DENSITY.num * DRAG_COEFFICIENT.num * area,
              den |-> AIR_DENSITY.den * DRAG_COEFFICIENT.den * 2]
        nl == Vec_normalized_and_length(velocity)
        direction == nl.direction
        speed == nl.length
        drag_force_magnitude == [num |-> k.num * speed * speed, den |-> k.den]
        minus_direction == Vec_neg(direction.num)
    IN  [num |-> <<(minus_direction[1] * drag_force_magnitude.num) \div direction.den,
                   (minus_direction[2] * drag_force_magnitude.num) \div direction.den>>,
         den |-> drag_force_magnitude.den]

---------------------------------------------------------------------------
(* ChainLink (src/objects/swing.py) *)

ChainLink_area(w, link) == w.shape[link.shape].area
ChainLink_position(w, link) == w.body[link.body].position
ChainLink_velocity(w, link) == w.body[link.body].velocity

ChainLink_drag_force(w, link) == Drag(ChainLink_area(w, link), ChainLink_velocity(w, link))

ChainLink_generate_body(w, chain_link_config, start_pos) ==
    [w EXCEPT !.body = Append(@, Body_new(chain_link_config.mass, start_pos))]

ChainLink_generate_shape(w, chain_link_config, body) ==
    [w EXCEPT !.shape = Append(@, Circle_new(body, chain_link_config.radius, <<0, 0>>,
                                             chain_link_config.shape_filter_group))]

\* ChainLink.generate: the new body and shape are registered in the space
ChainLink_generate(w, start_pos, mass, radius, shape_filter_group) ==
    LET chain_link_config ==
            [mass |-> mass, radius |-> radius, shape_filter_group |-> shape_filter_group]
        w1 == ChainLink_generate_body(w, chain_link_config, start_pos)
        body == Len(w1.body)
        w2 == ChainLink_generate_shape(w1, chain_link_config, body)
        shape == Len(w2.shape)
    IN  [w |-> Space_add(w2, {body}, {shape}, {}),
         link |-> [chain_link_config |-> chain_link_config, start_pos |-> start_pos,
                   body |-> body, shape |-> shape, constraints |-> <<>>]]

ChainLink_static_link(w, start_pos, mass, radius, shape_filter_group) ==
    LET g == ChainLink_generate(w, start_pos, mass, radius, shape_filter_group)
    IN  [w |-> [g.w EXCEPT !.body[g.link.body].body_type = "STATIC"], link |-> g.link]

\* ChainLink.add_pinjoint: the joint is registered and kept in the link's own list
ChainLink_add_pinjoint(w, link, body, other_body, offset) ==
    LET w1 == [w EXCEPT !.joint = Append(@, [a |-> body, b |-> other_body,
                                             anchor_a |-> offset, anchor_b |-> <<0, 0>>])]
        constraint == Len(w1.joint)
    IN  [w |-> Space_add(w1, {}, {}, {constraint}),
         link |-> [link EXCEPT !.constraints = Append(@, constraint)]]

ChainLink_dynamic_link(w, other_link, length, angle) ==
    LET pos == Vec_add(w.body[other_link.body].position, Vec_scale(dir_vec(angle), length))
        g == ChainLink_generate(w, pos, other_link.chain_link_config.mass,
                                other_link.chain_link_config.radius,
                                other_link.chain_link_config.shape_filter_group)
    IN  ChainLink_add_pinjoint(g.w, g.link, other_link.body, g.link.body, <<0, 0>>)

\* ChainLink.update: one apply_force_at_world_point call on the link's body
ChainLink_update(w, link) ==
    [op |-> "apply_force", body |-> link.body,
     force |-> ChainLink_drag_force(w, link), point |-> ChainLink_position(w, link)]

\* Mutant: the link's constraints are left in the space
ChainLink_remove_from_space_no_constraints(w, link) ==
    Space_remove(w, <<<<"body", link.body>>, <<"shape", link.shape>>>>)

ChainLink_remove_from_space(w, link) ==
    Space_remove(w, <<<<"body", link.body>>, <<"shape", link.shape>>>>
                    \o [i \in 1..Len(link.constraints) |-> <<"constraint", link.constraints[i]>>])

---------------------------------------------------------------------------
(* Swing (src/objects/swing.py) *)

\* the loop of Swing._generate_links: for _ in range(1, self.num_links)
RECURSIVE Swing_append_dynamic_links(_, _, _)
Swing_append_dynamic_links(r, swing, i) ==
    IF i >= swing.num_links THEN r
    ELSE LET d == ChainLink_dynamic_link(r.w, r.links[Len(r.links)],
                                         swing.link_length, swing.start_angle)
         IN  Swing_append_dynamic_links([w |-> d.w, links |-> Append(r.links, d.link)],
                                        swing, i + 1)

\* Mutant: the loop runs over range(self.num_links), one link too many
Swing_generate_links_from_zero(w, swing, mass, radius, shape_filter_group) ==
    LET s == ChainLink_static_link(w, swing.start_pos, mass, radius, shape_filter_group)
        r == Swing_append_dynamic_links([w |-> s.w, links |-> Append(swing.links, s.link)],
                                        swing, 0)
    IN  [w |-> r.w, swing |-> [swing EXCEPT !.links = r.links]]

Swing_generate_links(w, swing, mass, radius, shape_filter_group) ==
    LET s == ChainLink_static_link(w, swing.start_pos, mass, radius, shape_filter_group)
        r == Swing_append_dynamic_links([w |-> s.w, links |-> Append(swing.links, s.link)],
                                        swing, 1)
    IN  [w |-> r.w, swing |-> [swing EXCEPT !.links = r.links]]

Swing_create(w, cfg, start_pos, shape_filter_group) ==
    LET swing == [start_pos |-> start_pos, start_angle |-> cfg.start_angle,
                  num_links |-> cfg.num_links, link_length |-> cfg.link_length,
                  links |-> <<>>]
    IN  Swing_generate_links(w, swing, cfg.link_mass, cfg.link_radius, shape_filter_group)

\* Mutant: the static top link is skipped
Swing_update_skip_static(w, swing) ==
    [i \in 1..(Len(swing.links) - 1) |-> ChainLink_update(w, swing.links[i + 1])]

\* Swing.update: the calls it makes, in order
Swing_update(w, swing) ==
    [i \in 1..Len(swing.links) |-> ChainLink_update(w, swing.links[i])]

\* Swing.remove: link after link; an exception ends the loop
RECURSIVE Swing_remove_from(_, _, _)
Swing_remove_from(w, swing, i) ==
    IF i > Len(swing.links) THEN [w |-> w, err |-> "ok"]
    ELSE LET r == ChainLink_remove_from_space(w, swing.links[i])
         IN  IF r.err # "ok" THEN r ELSE Swing_remove_from(r.w, swing, i + 1)

Swing_remove(w, swing) == Swing_remove_from(w, swing, 1)

---------------------------------------------------------------------------
(* Head and Limb (src/objects/stickman.py) *)

None == "None"

HeadConfig_from_config(cfg, shape_filter_group) ==
    [radius |-> cfg.radius, mass |-> cfg.mass, start_angle |-> cfg.start_angle,
     angle_constraints |-> cfg.angle_constraints, shape_filter_group |-> shape_filter_group]

LimbConfig_from_config(cfg, shape_filter_group) ==
    [length |-> cfg.length, mass |-> cfg.mass, start_angle |-> cfg.start_angle,
     angle_constraints |-> cfg.angle_constraints, shape_filter_group |-> shape_filter_group]

Head_position(w, head) == w.body[head.head_body].position
Head_velocity(w, head) == w.body[head.head_body].velocity
Head_area(w, head) == w.shape[head.head_shape].area
Head_start_head_position(w, head) == w.body[head.head_body].position
Head_end_head_position(w, head) ==
    Vec_add(w.body[head.head_body].position,
            Vec_scale(dir_vec(head.head_config.start_angle), head.head_config.radius))

Head_drag_force(w, head) == Drag(Head_area(w, head), Head_velocity(w, head))

Head_generate_body(w, head_config, start_pos) ==
    [w EXCEPT !.body = Append(@, Body_new(head_config.mass, start_pos))]

Head_generate_shape(w, head_config, body, shape_filter_group) ==
    LET head_dir == dir_vec(head_config.start_angle)
    IN  [w EXCEPT !.shape = Append(@, Circle_new(body, head_config.radius,
                                                 Vec_scale(head_dir, head_config.radius),
                                                 shape_filter_group))]

Head_generate(w, start_pos, radius, mass, start_angle, angle_constraints, shape_filter_group) ==
    LET head_config == [radius |-> radius, mass |-> mass, start_angle |-> start_angle,
                        angle_constraints |-> angle_constraints,
                        shape_filter_group |-> shape_filter_group]
        w1 == Head_generate_body(w, head_config, start_pos)
        body == Len(w1.body)
        w2 == Head_generate_shape(w1, head_config, body, shape_filter_group)
        shape == Len(w2.shape)
    IN  [w |-> Space_add(w2, {body}, {shape}, {}),
         part |-> [class |-> "Head", head_config |-> head_config, start_pos |-> start_pos,
                   head_body |-> body, head_shape |-> shape, joint_motor |-> 1]]

\* Head.from_config: "if offset: start_pos += offset"
Head_from_config(w, cfg, start_pos, offset) ==
    LET pos == IF offset # None THEN Vec_add(start_pos, offset) ELSE start_pos
    IN  Head_generate(w, pos, cfg.radius, cfg.mass, cfg.start_angle, cfg.angle_constraints,
                      cfg.shape_filter_group)

Head_update(w, head) ==
    [op |-> "apply_force", body |-> head.head_body,
     force |-> Head_drag_force(w, head), point |-> Head_position(w, head)]

Limb_position(w, limb) == w.body[limb.limb_body].position
Limb_velocity(w, limb) == w.body[limb.limb_body].velocity
Limb_area(w, limb) == w.shape[limb.limb_segment].area
Limb_start_limb_position(w, limb) == w.body[limb.limb_body].position
Limb_end_limb_position(w, limb) ==
    Vec_add(w.body[limb.limb_body].position,
            Vec_scale(dir_vec(limb.limb_config.start_angle), limb.limb_config.length))

Limb_drag_force(w, limb) == Drag(Limb_area(w, limb), Limb_velocity(w, limb))

Limb_update(w, limb) ==
    [op |-> "apply_force", body |-> limb.limb_body,
     force |-> Limb_drag_force(w, limb), point |-> Limb_position(w, limb)]

Limb_generate_body(w, limb_config, start_pos) ==
    [w EXCEPT !.body = Append(@, Body_new(limb_config.mass, start_pos))]

Limb_generate_shape(w, limb_config, body, shape_filter_group) ==
    LET limb_dir == dir_vec(limb_config.start_angle)
    IN  [w EXCEPT !.shape = Append(@, Segment_new(body, <<0, 0>>,
                                                  Vec_scale(limb_dir, limb_config.length),
                                                  limb_config.length, 3, shape_filter_group))]

Limb_generate(w, start_pos, length, mass, start_angle, angle_constraints, shape_filter_group) ==
    LET limb_config == [length |-> length, mass |-> mass, start_angle |-> start_angle,
                        angle_constraints |-> angle_constraints,
                        shape_filter_group |-> shape_filter_group]
        w1 == Limb_generate_body(w, limb_config, start_pos)
        body == Len(w1.body)
        w2 == Limb_generate_shape(w1, limb_config, body, shape_filter_group)
        segment == Len(w2.shape)
    IN  [w |-> Space_add(w2, {body}, {segment}, {}),
         part |-> [class |-> "Limb", limb_config |-> limb_config, start_pos |-> start_pos,
                   limb_body |-> body, limb_segment |-> segment, joint_motor |-> 1]]

\* Mutant: the offset is not added
Limb_from_config_no_offset(w, cfg, start_pos, offset) ==
    Limb_generate(w, start_pos, cfg.length, cfg.mass, cfg.start_angle, cfg.angle_constraints,
                  cfg.shape_filter_group)

\* Limb.from_config: "if offset: start_pos += offset"
Limb_from_config(w, cfg, start_pos, offset) ==
    LET pos == IF offset # None THEN Vec_add(start_pos, offset) ELSE start_pos
    IN  Limb_generate(w, pos, cfg.length, cfg.mass, cfg.start_angle, cfg.angle_constraints,
                      cfg.shape_filter_group)

---------------------------------------------------------------------------
(* Stickman (src/objects/stickman.py) *)

\* The dataclass constructor: the positional arguments after space and
\* start_pos fill the fields in the order the class declares them.
Stickman_new(start_pos, a3, a4, a5, a6, a7, a8, a9, a10) ==
    [start_pos |-> start_pos, head |-> a3, neck |-> a4, upper_arm |-> a5,
     lower_arm |-> a6, torso |-> a7, lower_leg |-> a8, upper_leg |-> a9, foot |-> a10]

\* "return cls(space, start_pos, head, neck, upper_arm, lower_arm, torso,
\*              upper_leg, lower_leg, foot)"
Stickman_return(start_pos, parts) ==
    Stickman_new(start_pos, parts["head"], parts["neck"], parts["upper_arm"],
                 parts["lower_arm"], parts["torso"], parts["upper_leg"],
                 parts["lower_leg"], parts["foot"])

Stickman_body_parts(stickman) ==
    <<stickman.head, stickman.neck, stickman.upper_arm, stickman.lower_arm,
      stickman.torso, stickman.upper_leg, stickman.lower_leg, stickman.foot>>

\* One "part = Limb.from_config(config, space, anchor, offset)" statement of
\* Stickman.create.  r holds the space and the parts built so far; the anchor
\* is the start_pos argument, or the start or end position of an earlier part.
\* Mutant: a part anchored on another part's end is put at that part's start
Stickman_anchor_start_only(r, anchor) ==
    CASE anchor[1] = "start_pos" -> anchor[2]
      [] OTHER -> Limb_start_limb_position(r.w, r.parts[anchor[2]])

Stickman_anchor(r, anchor) ==
    CASE anchor[1] = "start_pos" -> anchor[2]
      [] anchor[1] = "start" -> Limb_start_limb_position(r.w, r.parts[anchor[2]])
      [] OTHER -> Limb_end_limb_position(r.w, r.parts[anchor[2]])

Stickman_add_limb(r, name, limb_config, anchor, offset) ==
    LET g == Limb_from_config(r.w, limb_config, Stickman_anchor(r, anchor), offset)
    IN  [w |-> g.w, parts |-> [r.parts EXCEPT ![name] = g.part]]

Stickman_add_head(r, name, head_config, anchor, offset) ==
    LET g == Head_from_config(r.w, head_config, Stickman_anchor(r, anchor), offset)
    IN  [w |-> g.w, parts |-> [r.parts EXCEPT ![name] = g.part]]

PartNames ==
    {"head", "neck", "upper_arm", "lower_arm", "torso", "upper_leg", "lower_leg", "foot"}

Stickman_create(w, cfg, start_pos, shape_filter_group) ==
    LET head_config == HeadConfig_from_config(cfg.head, shape_filter_group)
        neck_config == LimbConfig_from_config(cfg.neck, shape_filter_group)
        upper_arm_config == LimbConfig_from_config(cfg.upper_arm, shape_filter_group)
        lower_arm_config == LimbConfig_from_config(cfg.lower_arm, shape_filter_group)
        torso_config == LimbConfig_from_config(cfg.torso, shape_filter_group)
        upper_leg_config == LimbConfig_from_config(cfg.upper_leg, shape_filter_group)
        lower_leg_config == LimbConfig_from_config(cfg.lower_leg, shape_filter_group)
        foot_config == LimbConfig_from_config(cfg.foot, shape_filter_group)
        r0 == [w |-> w, parts |-> [n \in PartNames |-> None]]
        r1 == Stickman_add_limb(r0, "foot", foot_config, <<"start_pos", start_pos>>, None)
        r2 == Stickman_add_limb(r1, "lower_leg", lower_leg_config, <<"start", "foot">>,
                                Vec_neg(<<0, lower_leg_config.length>>))
        r3 == Stickman_add_limb(r2, "upper_leg", upper_leg_config, <<"start", "lower_leg">>,
                                Vec_neg(<<upper_leg_config.length, 0>>))
        r4 == Stickman_add_limb(r3, "torso", torso_config, <<"start", "upper_leg">>,
                                Vec_neg(<<0, torso_config.length>>))
        r5 == Stickman_add_limb(r4, "upper_arm", upper_arm_config, <<"start", "torso">>, None)
        r6 == Stickman_add_limb(r5, "lower_arm", lower_arm_config, <<"end", "upper_arm">>, None)
        r7 == Stickman_add_limb(r6, "neck", neck_config, <<"start", "torso">>, None)
        r8 == Stickman_add_head(r7, "head", head_config, <<"end", "neck">>, None)
    IN  [w |-> r8.w, stickman |-> Stickman_return(start_pos, r8.parts)]

\* body_part.update() of a Head or of a Limb
Part_update(w, body_part) ==
    IF body_part.class = "Head" THEN Head_update(w, body_part) ELSE Limb_update(w, body_part)

\* Stickman.update: the calls it makes, in order
Stickman_update(w, stickman) ==
    LET body_parts == Stickman_body_parts(stickman)
    IN  [i \in 1..Len(body_parts) |-> Part_update(w, body_parts[i])]

\* stickman.remove(): the class defines no such method
Stickman_remove(w, stickman) == [w |-> w, err |-> "AttributeError"]

---------------------------------------------------------------------------
(* The solver: space.step.  It is outside the program; the model lets it   *)
(* hand every registered dynamic body the velocity v (bodies of odd index) *)
(* or -v (bodies of even index) and move the body by it.                   *)

Velocities == {<<0, 0>>, <<3, 4>>, <<0, -5>>}

Space_step(w, v) ==
    [w EXCEPT !.body =
        [b \in 1..Len(w.body) |->
            IF b \in w.bodies /\ w.body[b].body_type = "DYNAMIC"
            THEN LET u == IF b % 2 = 1 THEN v ELSE Vec_neg(v)
                 IN  [w.body[b] EXCEPT !.velocity = u, !.position = Vec_add(@, u)]
            ELSE w.body[b]]]

---------------------------------------------------------------------------
(* Configurations (config/swing.json, config/stickman.json) *)

Angles == {0, 90}
Groups == {1, 2}
SwingGroups == {1}
MemberGroups == {2}
SwingPositions == {<<300, 100>>}
StickmanPositions == {<<100, 500>>}

SwingConfigs ==
    [start_angle : Angles, num_links : 0..MaxLinks, link_length : {10},
     link_mass : {1}, link_radius : {5}]

LimbCfg(length, start_angle) ==
    [length |-> length, mass |-> 1, start_angle |-> start_angle,
     angle_constraints |-> <<-90, 90>>]

HeadCfg(radius, start_angle) ==
    [radius |-> radius, mass |-> 1, start_angle |-> start_angle,
     angle_constraints |-> <<-90, 90>>]

\* the lengths of the example: foot 20, lower_leg 80, upper_leg 80, torso 100
ExampleStickman(a_lower_leg, a_upper_leg, a_torso, a_upper_arm, a_neck) ==
    [head |-> HeadCfg(10, 0), neck |-> LimbCfg(10, a_neck),
     upper_arm |-> LimbCfg(40, a_upper_arm), lower_arm |-> LimbCfg(40, 180),
     torso |-> LimbCfg(100, a_torso), upper_leg |-> LimbCfg(80, a_upper_leg),
     lower_leg |-> LimbCfg(80, a_lower_leg), foot |-> LimbCfg(20, 90)]

\* other lengths, all different
OtherStickman(a_lower_leg, a_upper_leg, a_torso, a_upper_arm, a_neck) ==
    [head |-> HeadCfg(8, 90), neck |-> LimbCfg(12, a_neck),
     upper_arm |-> LimbCfg(30, a_upper_arm), lower_arm |-> LimbCfg(35, 90),
     torso |-> LimbCfg(90, a_torso), upper_leg |-> LimbCfg(70, a_upper_leg),
     lower_leg |-> LimbCfg(60, a_lower_leg), foot |-> LimbCfg(25, 0)]

DefaultStickman == ExampleStickman(180, 90, 180, 90, 0)
DefaultSwing ==
    [start_angle |-> 0, num_links |-> 2, link_length |-> 10, link_mass |-> 1, link_radius |-> 5]

StickmanConfigs ==
    {ExampleStickman(a, b, c, d, e) : a \in Angles, b \in Angles, c \in Angles,
                                      d \in Angles, e \in Angles}
    \cup {OtherStickman(a, b, c, d, e) : a \in Angles, b \in Angles, c \in Angles,
                                        d \in Angles, e \in Angles}
    \cup {DefaultStickman}

---------------------------------------------------------------------------
(* App (src/pg/app.py) and the operations of the objects it holds *)

\* op.built remembers the last add_swing / add_stickman call: what it built,
\* its arguments, and the registered sets before it ran
NoOp ==
    [name |-> "init", target |-> 0, pre |-> Registered(EmptySpace),
     built |-> [kind |-> "none", target |-> 0, pre |-> Registered(EmptySpace),
                start_pos |-> <<0, 0>>, shape_filter_group |-> 0]]

Op(name, target) ==
    [name |-> name, target |-> target, pre |-> Registered(space), built |-> op.built]

OpBuild(name, kind, target, start_pos, shape_filter_group) ==
    [name |-> name, target |-> target, pre |-> Registered(space),
     built |-> [kind |-> kind, target |-> target, pre |-> Registered(space),
                start_pos |-> start_pos, shape_filter_group |-> shape_filter_group]]

\* App.__init__, _load_config and _configure
InitWith(SwingCfgs, StickmanCfgs) ==
    /\ swing_config \in SwingCfgs
    /\ stickman_config \in StickmanCfgs
    /\ space = EmptySpace
    /\ swings = <<>>
    /\ members = <<>>
    /\ calls = <<>>
    /\ err = "ok"
    /\ op = NoOp
    /\ ticks = 0

\* the calls of the loop "for swing in self._swings: swing.update()"
RECURSIVE App_update_swings(_, _, _)
App_update_swings(w, ss, i) ==
    IF i > Len(ss) THEN <<>>
    ELSE Swing_update(w, ss[i]) \o App_update_swings(w, ss, i + 1)

\* the calls of App.update: every swing's update, then space.step
App_update_calls(w, ss, ms) == App_update_swings(w, ss, 1) \o <<[op |-> "step"]>>

\* App.add_swing
AddSwing(start_pos, shape_filter_group) ==
    /\ Len(swings) < MaxSwings
    /\ Len(swings) + Len(members) < MaxComposites
    /\ LET r == Swing_create(space, swing_config, start_pos, shape_filter_group)
       IN  /\ space' = r.w
           /\ swings' = Append(swings, r.swing)
    /\ calls' = <<>>
    /\ err' = "ok"
    /\ op' = OpBuild("add_swing", "Swing", Len(swings) + 1, start_pos, shape_filter_group)
    /\ UNCHANGED <<swing_config, stickman_config, members, ticks>>

\* App.add_stickman
AddStickman(start_pos, shape_filter_group) ==
    /\ Len(members) < MaxMembers
    /\ Len(swings) + Len(members) < MaxComposites
    /\ LET r == Stickman_create(space, stickman_config, start_pos, shape_filter_group)
       IN  /\ space' = r.w
           /\ members' = Append(members, r.stickman)
    /\ calls' = <<>>
    /\ err' = "ok"
    /\ op' = OpBuild("add_stickman", "Stickman", Len(members) + 1, start_pos,
                      shape_filter_group)
    /\ UNCHANGED <<swing_config, stickman_config, swings, ticks>>

\* App.update: one tick
AppUpdate(v) ==
    /\ ticks < MaxTicks
    /\ calls' = App_update_calls(space, swings, members)
    /\ space' = Space_step(Space_apply_calls(space, calls', 1), v)
    /\ ticks' = ticks + 1
    /\ err' = "ok"
    /\ op' = Op("App.update", 0)
    /\ UNCHANGED <<swing_config, stickman_config, swings, members>>

\* swing.update() on a swing of the application
SwingUpdate(i) ==
    /\ i \in 1..Len(swings)
    /\ calls' = Swing_update(space, swings[i])
    /\ space' = Space_apply_calls(space, calls', 1)
    /\ err' = "ok"
    /\ op' = Op("Swing.update", i)
    /\ UNCHANGED <<swing_config, stickman_config, swings, members, ticks>>

\* swing.remove() on a swing of the application
SwingRemove(i) ==
    /\ i \in 1..Len(swings)
    /\ LET r == Swing_remove(space, swings[i])
       IN  /\ space' = r.w
           /\ err' = r.err
    /\ calls' = <<>>
    /\ op' = Op("Swing.remove", i)
    /\ UNCHANGED <<swing_config, stickman_config, swings, members, ticks>>

\* stickman.update() on a stickman of the application
StickmanUpdate(i) ==
    /\ i \in 1..Len(members)
    /\ calls' = Stickman_update(space, members[i])
    /\ space' = Space_apply_calls(space, calls', 1)
    /\ err' = "ok"
    /\ op' = Op("Stickman.update", i)
    /\ UNCHANGED <<swing_config, stickman_config, swings, members, ticks>>

\* stickman.remove() on a stickman of the application
StickmanRemove(i) ==
    /\ i \in 1..Len(members)
    /\ LET r == Stickman_remove(space, members[i])
       IN  /\ space' = r.w
           /\ err' = r.err
    /\ calls' = <<>>
    /\ op' = Op("Stickman.remove", i)
    /\ UNCHANGED <<swing_config, stickman_config, swings, members, ticks>>

\* the application with the number of links varied
Init == InitWith({c \in SwingConfigs : c.start_angle = 90}, {DefaultStickman})

Next ==
    \/ \E p \in SwingPositions, g \in SwingGroups : AddSwing(p, g)
    \/ \E p \in StickmanPositions, g \in MemberGroups : AddStickman(p, g)
    \/ \E v \in Velocities : AppUpdate(v)
    \/ \E i \in 1..MaxSwings : SwingUpdate(i)
    \/ \E i \in 1..MaxSwings : SwingRemove(i)
    \/ \E i \in 1..MaxMembers : StickmanUpdate(i)
    \/ \E i \in 1..MaxMembers : StickmanRemove(i)

Spec == Init /\ [][Next]_vars

\* the application with every swing configuration and no stickman added
InitSwing == InitWith(SwingConfigs, {DefaultStickman})

NextSwing ==
    \/ \E p \in SwingPositions, g \in SwingGroups : AddSwing(p, g)
    \/ \E v \in Velocities : AppUpdate(v)
    \/ \E i \in 1..MaxSwings : SwingUpdate(i)
    \/ \E i \in 1..MaxSwings : SwingRemove(i)

SpecSwing == InitSwing /\ [][NextSwing]_vars

\* the application with the stickman configuration varied and no swing added
InitStickman == InitWith({DefaultSwing}, StickmanConfigs)

NextStickman ==
    \/ \E p \in StickmanPositions, g \in Groups : AddStickman(p, g)
    \/ \E v \in Velocities : AppUpdate(v)
    \/ \E i \in 1..MaxMembers : StickmanUpdate(i)
    \/ \E i \in 1..MaxMembers : StickmanRemove(i)

SpecStickman == InitStickman /\ [][NextStickman]_vars

---------------------------------------------------------------------------
(* What a composite owns *)

SwingBodies(s) == {s.links[i].body : i \in 1..Len(s.links)}
SwingShapes(s) == {s.links[i].shape : i \in 1..Len(s.links)}
SwingJoints(s) ==
    {j \in 1..Len(space.joint) :
        \E i \in 1..Len(s.links) :
            \E k \in 1..Len(s.links[i].constraints) : s.links[i].constraints[k] = j}

PartBody(part) == IF part.class = "Head" THEN part.head_body ELSE part.limb_body
PartShape(part) == IF part.class = "Head" THEN part.head_shape ELSE part.limb_segment

StickmanBodies(m) == {PartBody(Stickman_body_parts(m)[i]) : i \in 1..8}
StickmanShapes(m) == {PartShape(Stickman_body_parts(m)[i]) : i \in 1..8}

ForceCalls == {i \in 1..Len(calls) : calls[i].op = "apply_force"}
StepCalls == {i \in 1..Len(calls) : calls[i].op = "step"}

---------------------------------------------------------------------------
(* Claims *)

\* C1: for num_links = N >= 1, Swing.create registers exactly N links (N new
\* bodies, N new shapes) and exactly N-1 new pin joints; link 1 is static and
\* has no joint, and the joint of link i connects link i-1 and link i; for
\* N = 1 there is one static link, no joint, and no error.
C1_SwingCreateLinksAndJoints ==
    (op.name = "add_swing" /\ swings[op.target].num_links >= 1) =>
        LET s == swings[op.target]
            N == s.num_links
        IN  /\ err = "ok"
            /\ Len(s.links) = N
            /\ Cardinality(SwingBodies(s)) = N
            /\ Cardinality(SwingShapes(s)) = N
            /\ space.bodies \ op.pre.bodies = SwingBodies(s)
            /\ space.shapes \ op.pre.shapes = SwingShapes(s)
            /\ space.constraints \ op.pre.constraints = SwingJoints(s)
            /\ Cardinality(SwingJoints(s)) = N - 1
            /\ space.body[s.links[1].body].body_type = "STATIC"
            /\ s.links[1].constraints = <<>>
            /\ \A i \in 2..N :
                /\ Len(s.links[i].constraints) = 1
                /\ space.body[s.links[i].body].body_type = "DYNAMIC"
                /\ space.joint[s.links[i].constraints[1]].a = s.links[i - 1].body
                /\ space.joint[s.links[i].constraints[1]].b = s.links[i].body

C1_Witness ==
    /\ op.name = "add_swing"
    /\ swings[op.target].num_links = 3
    /\ Cardinality(space.constraints \ op.pre.constraints) = 2

\* C2: after Swing.remove() none of the swing's bodies, shapes and pin joints
\* is registered in the space, and a remove() of a swing whose objects were
\* all registered raises nothing.
C2_SwingRemoveUnregistersAll ==
    op.name = "Swing.remove" =>
        LET s == swings[op.target]
        IN  /\ SwingBodies(s) \cap space.bodies = {}
            /\ SwingShapes(s) \cap space.shapes = {}
            /\ SwingJoints(s) \cap space.constraints = {}
            /\ (SwingBodies(s) \subseteq op.pre.bodies) => err = "ok"

C2_Witness ==
    /\ op.name = "Swing.remove"
    /\ err = "ok"
    /\ Len(swings[op.target].links) = 3
    /\ Cardinality(op.pre.constraints \ space.constraints) = 2

\* the lengths of the example of C3
ExampleLengths(cfg) ==
    /\ cfg.foot.length = 20
    /\ cfg.lower_leg.length = 80
    /\ cfg.upper_leg.length = 80
    /\ cfg.torso.length = 100

C4_Original ==
    (/\ op.name = "Stickman.remove"
     /\ op.built.kind = "Stickman"
     /\ op.built.target = op.target) =>
        /\ Cardinality(space.bodies) = Cardinality(op.built.pre.bodies)
        /\ Cardinality(space.shapes) = Cardinality(op.built.pre.shapes)
        /\ Cardinality(space.constraints) = Cardinality(op.built.pre.constraints)

\* C7: a Stickman from Stickman.create has one segment for each of the 8
\* named parts: 8 distinct bodies and 8 distinct shapes, all registered by the
\* create call, every shape with the collision group passed in; upper_arm and
\* neck are anchored at the torso's start position, lower_arm at upper_arm's
\* far endpoint and head at neck's far endpoint.
C7_StickmanParts ==
    op.name = "add_stickman" =>
        LET m == members[op.target]
            g == op.built.shape_filter_group
            parts == Stickman_body_parts(m)
            far(limb) == Vec_add(limb.start_pos,
                                 Vec_scale(dir_vec(limb.limb_config.start_angle),
                                           limb.limb_config.length))
        IN  /\ m.head.class = "Head"
            /\ \A i \in 2..8 : parts[i].class = "Limb"
            /\ Cardinality(StickmanBodies(m)) = 8
            /\ Cardinality(StickmanShapes(m)) = 8
            /\ space.bodies \ op.pre.bodies = StickmanBodies(m)
            /\ space.shapes \ op.pre.shapes = StickmanShapes(m)
            /\ \A i \in 1..8 :
                /\ space.shape[PartShape(parts[i])].body = PartBody(parts[i])
                /\ space.shape[PartShape(parts[i])].filter_group = g
                /\ space.body[PartBody(parts[i])].position = parts[i].start_pos
            /\ m.upper_arm.start_pos = m.torso.start_pos
            /\ m.neck.start_pos = m.torso.start_pos
            /\ m.lower_arm.start_pos = far(m.upper_arm)
            /\ m.head.start_pos = far(m.neck)

C7_Witness ==
    /\ op.name = "add_stickman"
    /\ op.built.shape_filter_group = 1
    /\ stickman_config.upper_arm.start_angle = 90
    /\ stickman_config.neck.start_angle = 0
    /\ members[op.target].lower_arm.start_pos # members[op.target].head.start_pos
    /\ members[op.target].lower_arm.start_pos # members[op.target].upper_arm.start_pos
    /\ Cardinality(space.shapes \ op.pre.shapes) = 8

\* the force calls made on body b
ForceCallsOn(b) == {i \in ForceCalls : calls[i].body = b}

\* C5: one update() of a composite owning N segments makes exactly N force
\* applications, one on the body of each owned segment and none on another
\* body, and no integration step comes before any of them: update() itself
\* makes no step, and in a tick of App.update the step is the last call.
C5_UpdateAppliesOneForcePerSegment ==
    /\ op.name = "Swing.update" =>
        LET s == swings[op.target]
        IN  /\ Len(calls) = Len(s.links)
            /\ StepCalls = {}
            /\ \A i \in 1..Len(calls) : calls[i].body \in SwingBodies(s)
            /\ \A b \in SwingBodies(s) : Cardinality(ForceCallsOn(b)) = 1
    /\ op.name = "Stickman.update" =>
        LET m == members[op.target]
        IN  /\ Len(calls) = 8
            /\ StepCalls = {}
            /\ \A i \in 1..Len(calls) : calls[i].body \in StickmanBodies(m)
            /\ \A b \in StickmanBodies(m) : Cardinality(ForceCallsOn(b)) = 1
    /\ op.name = "App.update" =>
        /\ StepCalls = {Len(calls)}
        /\ \A k \in 1..Len(swings) :
            \A b \in SwingBodies(swings[k]) : Cardinality(ForceCallsOn(b)) = 1

C5_Witness ==
    /\ op.name = "Swing.update"
    /\ Len(swings[op.target].links) = 3
    /\ Len(calls) = 3
    /\ Len(members) = 1

\* C6 as stated: in every tick update() is called on every swing and every
\* stickman added to the application, so the body of each of their segments
\* gets a force before the step of that tick.
C6_Original ==
    op.name = "App.update" =>
        \A b \in UNION ({SwingBodies(swings[k]) : k \in 1..Len(swings)}
                        \cup {StickmanBodies(members[k]) : k \in 1..Len(members)}) :
            \E i \in ForceCallsOn(b) : \A j \in StepCalls : i < j

InvalidSwingConfig(cfg) ==
    cfg.link_mass <= 0 \/ cfg.link_radius <= 0 \/ cfg.link_length <= 0 \/ cfg.num_links < 1

\* C8 as stated: construction with an invalid configuration fails, and after
\* the failure nothing of the failed build is registered in the space.
C8_Original ==
    (op.name = "add_swing" /\ InvalidSwingConfig(swing_config)) =>
        /\ err # "ok"
        /\ Registered(space) = op.pre

\* C9 as stated: once Swing.remove() has run, a later Swing.update() reports
\* an error and applies no force to any of the removed bodies.
C9_Original ==
    (op.name = "Swing.update" /\ SwingBodies(swings[op.target]) \cap space.bodies = {}) =>
        /\ err # "ok"
        /\ \A b \in SwingBodies(swings[op.target]) : ForceCallsOn(b) = {}

\* the force f = num / den is the drag of a body of the given area and velocity
IsDrag(f, area, v) ==
    /\ f.den = 200000
    /\ v = <<0, 0>> => f.num = <<0, 0>>
    /\ v # <<0, 0>> =>
        /\ Vec_cross(f.num, v) = 0
        /\ Vec_dot(f.num, v) < 0
        /\ \E speed \in 1..(MaxSpeed + 1) :
            /\ speed * speed = Vec_dot(v, v)
            /\ -Vec_dot(f.num, v) = 1125 * area * speed * speed * speed

ShapeOfBody(b) == CHOOSE sh \in 1..Len(space.shape) : space.shape[sh].body = b

\* C10: for a ChainLink, a Limb and a Head, drag_force is the zero vector when
\* the body's velocity is zero; otherwise it is anti-parallel to the velocity
\* and its magnitude is k * speed^2 with k = 0.45 * 0.025 * area / 2 (that is
\* 1125 * area / 200000); the force an update() applies is that force.
C10_DragForce ==
    /\ \A k \in 1..Len(swings) : \A i \in 1..Len(swings[k].links) :
        LET link == swings[k].links[i]
        IN  IsDrag(ChainLink_drag_force(space, link), space.shape[link.shape].area,
                   space.body[link.body].velocity)
    /\ \A k \in 1..Len(members) : \A i \in 1..8 :
        LET part == Stickman_body_parts(members[k])[i]
            f == IF part.class = "Head" THEN Head_drag_force(space, part)
                 ELSE Limb_drag_force(space, part)
        IN  IsDrag(f, space.shape[PartShape(part)].area, space.body[PartBody(part)].velocity)
    /\ op.name \in {"Swing.update", "Stickman.update"} =>
        \A i \in ForceCalls :
            IsDrag(calls[i].force, space.shape[ShapeOfBody(calls[i].body)].area,
                   space.body[calls[i].body].velocity)

C10_Witness ==
    /\ op.name = "Stickman.update"
    /\ Len(swings) = 1
    /\ \E i \in 1..Len(swings[1].links) :
        space.body[swings[1].links[i].body].velocity # <<0, 0>>
    /\ space.body[swings[1].links[1].body].velocity = <<0, 0>>
    /\ space.body[members[1].head.head_body].velocity # <<0, 0>>
    /\ space.body[members[1].torso.limb_body].velocity # <<0, 0>>
    /\ \E i \in ForceCalls : calls[i].force.num # <<0, 0>>

---------------------------------------------------------------------------
(* Joints of the stickman, and what update() leaves alone *)

\* the limb-to-limb connections of a stickman, as pairs of its parts
Stickman_connections(m) ==
    {<<m.foot, m.lower_leg>>, <<m.lower_leg, m.upper_leg>>, <<m.upper_leg, m.torso>>,
     <<m.torso, m.upper_arm>>, <<m.upper_arm, m.lower_arm>>, <<m.torso, m.neck>>,
     <<m.neck, m.head>>}

\* C11 as stated: after Stickman.create the space holds one pin joint for each
\* of the 7 limb-to-limb connections (foot-lower_leg, lower_leg-upper_leg,
\* upper_leg-torso, torso-upper_arm, upper_arm-lower_arm, torso-neck,
\* neck-head), registered by the create call and joining the bodies of the
\* two parts.
C11_Original ==
    op.name = "add_stickman" =>
        LET m == members[op.target]
            added == space.constraints \ op.pre.constraints
        IN  /\ Cardinality(added) = 7
            /\ \A c \in Stickman_connections(m) :
                \E j \in added :
                    {space.joint[j].a, space.joint[j].b} = {PartBody(c[1]), PartBody(c[2])}

\* C12: a Swing.update or a Stickman.update call changes no topology: the
\* swings and stickmen keep their ordered segments and every link keeps its
\* list of joints, the sets of bodies, shapes and joints registered in the
\* space stay the same, and no body, shape or joint object is made or changed
\* in its wiring.  Holding at every update step, it holds after any number of
\* them.
C12_UpdateKeepsTopology ==
    [][op'.name \in {"Swing.update", "Stickman.update"} =>
        /\ swings' = swings
        /\ members' = members
        /\ Registered(space') = Registered(space)
        /\ space'.joint = space.joint
        /\ space'.shape = space.shape
        /\ Len(space'.body) = Len(space.body)]_vars

\* a swing of three links, still registered with its two joints beside a
\* registered stickman, has just been updated while it moved
C12_Witness ==
    /\ op.name = "Swing.update"
    /\ Len(swings[op.target].links) = 3
    /\ Cardinality(SwingJoints(swings[op.target])) = 2
    /\ SwingJoints(swings[op.target]) \subseteq space.constraints
    /\ SwingBodies(swings[op.target]) \subseteq space.bodies
    /\ Len(members) = 1
    /\ StickmanBodies(members[1]) \subseteq space.bodies
    /\ ticks = 1
    /\ Len(calls) = 3
    /\ \E i \in ForceCalls : calls[i].force.num # <<0, 0>>

=============================================================================
